---- MODULE Spec2Model ----
(***************************************************************************)
(* A model of chalk's lowering pass (src/lower/mod.rs): the surface AST of *)
(* structs, traits, impls and goals is lowered to the ir, with names       *)
(* resolved to ItemIds and parameters to positional indices.               *)
(*                                                                         *)
(* Conventions.  An ast Identifier is the record [str |-> s] (its span is  *)
(* not modelled); an ir::Identifier is the bare string.  An ir::ItemId is  *)
(* its index, a natural number.  A HashMap is a function with a finite     *)
(* domain; the empty map is <<>>.  A Result is Ok(v) or Err(e).            *)
(***************************************************************************)
EXTENDS Integers, Sequences, FiniteSets, TLC

VARIABLES
    items,               \* the input Program's items (ast)
    pc,                  \* position inside Program::lower
    pos,                 \* position of the running for loop, 1-based
    index,               \* the counter captured by next_item_id
    allocated,           \* the ids returned by next_item_id, in call order
    item_ids,            \* Vec<ItemId>, one per item
    associated_ty_ids,   \* (ItemId, Identifier) -> ItemId
    type_ids,            \* Identifier -> ItemId
    type_kinds,          \* ItemId -> TypeKind
    trait_data,          \* ItemId -> TraitData
    impl_data,           \* ItemId -> ImplData
    associated_ty_data,  \* ItemId -> AssociatedTyData
    result,              \* what Program::lower returned (None while running)
    goal,                \* the last Goal lowered against the Program
    scope,               \* the parameter_map of the Env under exploration
    call                 \* the last call of an Env method or lowering helper

vars == <<items, pc, pos, index, allocated, item_ids, associated_ty_ids,
          type_ids, type_kinds, trait_data, impl_data, associated_ty_data,
          result, goal, scope, call>>

(***************************************************************************)
(* Values                                                                  *)
(***************************************************************************)
Ok(v) == [ok |-> TRUE, val |-> v]
Err(e) == [ok |-> FALSE, err |-> e]
None == [tag |-> "None"]

Ident(s) == [str |-> s]

SELF == "Self"

Range(s) == {s[i] : i \in 1..Len(s)}

\* the largest position of s holding x (a later insert replaces an earlier
\* one when an iterator of pairs is collected into a HashMap)
LastIndex(s, x) == CHOOSE i \in 1..Len(s) : s[i] = x /\ \A j \in (i+1)..Len(s) : s[j] # x

SeqsUpTo(S, n) == UNION {[1..k -> S] : k \in 0..n}

\* ast::ParameterKind and ir::ParameterKind<Identifier>
TyParam(s) == [kind |-> "Ty", name |-> Ident(s)]
LifetimeParam(s) == [kind |-> "Lifetime", name |-> Ident(s)]
TyKey(s) == [kind |-> "Ty", name |-> s]
LifetimeKey(s) == [kind |-> "Lifetime", name |-> s]

\* the ErrorKind variants and the two string errors
InvalidTypeName(name) == [kind |-> "InvalidTypeName", name |-> name]
NotTrait(name) == [kind |-> "NotTrait", name |-> name]
CannotApplyTypeParameter(name) == [kind |-> "CannotApplyTypeParameter", name |-> name]
IncorrectNumberOfTypeParameters(name, expected, actual) ==
    [kind |-> "IncorrectNumberOfTypeParameters", name |-> name,
     expected |-> expected, actual |-> actual]
InvalidLifetimeName(s) == [kind |-> "invalid lifetime name", name |-> s]
NoAssociatedType(s) == [kind |-> "no associated type defined in trait", name |-> s]

\* Result<Vec<_>> collected from an iterator of Results: the first Err wins
CollectResults(rs) ==
    IF \E i \in 1..Len(rs) : ~rs[i].ok
    THEN Err(rs[CHOOSE i \in 1..Len(rs) : ~rs[i].ok /\ \A j \in 1..(i-1) : rs[j].ok].err)
    ELSE Ok([i \in 1..Len(rs) |-> rs[i].val])

(***************************************************************************)
(* Env                                                                     *)
(***************************************************************************)
Env(tids, tkinds, aids, pm) ==
    [type_ids |-> tids, type_kinds |-> tkinds,
     associated_ty_ids |-> aids, parameter_map |-> pm]

\* the global map consulted before the parameters
lookupGlobalFirst(env, name) ==
    IF name.str \in DOMAIN env.type_ids
    THEN Ok([tag |-> "Type", id |-> env.type_ids[name.str]])
    ELSE IF TyKey(name.str) \in DOMAIN env.parameter_map
         THEN Ok([tag |-> "Parameter", index |-> env.parameter_map[TyKey(name.str)]])
         ELSE Err(InvalidTypeName(name))

lookup(env, name) ==
    IF TyKey(name.str) \in DOMAIN env.parameter_map
    THEN Ok([tag |-> "Parameter", index |-> env.parameter_map[TyKey(name.str)]])
    ELSE IF name.str \in DOMAIN env.type_ids
         THEN Ok([tag |-> "Type", id |-> env.type_ids[name.str]])
         ELSE Err(InvalidTypeName(name))

lookup_lifetime(env, name) ==
    IF LifetimeKey(name.str) \in DOMAIN env.parameter_map
    THEN Ok([tag |-> "Parameter", index |-> env.parameter_map[LifetimeKey(name.str)]])
    ELSE Err(InvalidLifetimeName(name.str))

type_kind(env, id) == env.type_kinds[id]

\* the keys of the binders, enumerated from 0, are chained after the shifted
\* entries of the old map: a binder replaces an old entry of the same key,
\* and a later binder an earlier one
\* the old entries kept at their indices
introduceNoShift(env, binders) ==
    [env EXCEPT !.parameter_map =
        [k \in DOMAIN env.parameter_map \cup Range(binders) |->
            IF k \in Range(binders) THEN LastIndex(binders, k) - 1
            ELSE env.parameter_map[k]]]

introduce(env, binders) ==
    LET len == Len(binders)
        old == env.parameter_map
    IN  [env EXCEPT !.parameter_map =
            [k \in DOMAIN old \cup Range(binders) |->
                IF k \in Range(binders) THEN LastIndex(binders, k) - 1
                ELSE old[k] + len]]

(***************************************************************************)
(* LowerParameterMap, LowerParameterKind, LowerTypeKind                    *)
(***************************************************************************)
LowerParameterKind(p) == [kind |-> p.kind, name |-> p.name.str]

synthetic_parameters(item) ==
    IF item.tag = "TraitDefn" THEN <<TyKey(SELF)>> ELSE <<>>

declared_parameters(item) == item.parameter_kinds

\* the synthetic parameter chained before the declared ones
all_parametersSelfFirst(item) ==
    synthetic_parameters(item)
    \o [i \in 1..Len(declared_parameters(item)) |->
           LowerParameterKind(declared_parameters(item)[i])]

all_parameters(item) ==
    [i \in 1..Len(declared_parameters(item)) |->
        LowerParameterKind(declared_parameters(item)[i])]
    \o synthetic_parameters(item)

parameter_map(item) ==
    LET all == all_parameters(item)
    IN  [k \in Range(all) |-> LastIndex(all, k) - 1]

lower_type_kind(d) ==
    Ok([sort |-> IF d.tag = "StructDefn" THEN "Struct" ELSE "Trait",
        name |-> d.name.str,
        parameter_kinds |-> [i \in 1..Len(d.parameter_kinds) |->
                                LowerParameterKind(d.parameter_kinds[i])]])

(***************************************************************************)
(* The ast, as the parser hands it over                                    *)
(***************************************************************************)
TyId(s) == [tag |-> "Id", name |-> Ident(s)]
TyApply(s, args) == [tag |-> "Apply", name |-> Ident(s), args |-> args]
TyProjection(proj) == [tag |-> "Projection", proj |-> proj]
TyForAll(names, ty) ==
    [tag |-> "ForAll", lifetime_names |-> [i \in 1..Len(names) |-> Ident(names[i])],
     ty |-> ty]
LifetimeId(s) == [tag |-> "Id", name |-> Ident(s)]
ParameterTy(t) == [kind |-> "Ty", ty |-> t]
ParameterLifetime(s) == [kind |-> "Lifetime", lifetime |-> LifetimeId(s)]
TraitRefOf(s, args) == [trait_name |-> Ident(s), args |-> args]
ProjectionTyOf(tr, s) == [trait_ref |-> tr, name |-> Ident(s)]
Implemented(tr) == [tag |-> "Implemented", trait_ref |-> tr]
ProjectionEq(proj, ty) == [tag |-> "ProjectionEq", projection |-> proj, ty |-> ty]
AssocTyValueOf(s, ty) == [name |-> Ident(s), value |-> ty]
StructDefn(s, ps, wcs) ==
    [tag |-> "StructDefn", name |-> Ident(s), parameter_kinds |-> ps,
     where_clauses |-> wcs]
TraitDefn(s, ps, wcs, names) ==
    [tag |-> "TraitDefn", name |-> Ident(s), parameter_kinds |-> ps,
     where_clauses |-> wcs,
     assoc_ty_names |-> [i \in 1..Len(names) |-> Ident(names[i])]]
Impl(ps, tr, wcs, vals) ==
    [tag |-> "Impl", parameter_kinds |-> ps, trait_ref |-> tr,
     where_clauses |-> wcs, assoc_ty_values |-> vals]
GoalForAll(ps, g) == [tag |-> "ForAll", ids |-> ps, goal |-> g]
GoalExists(ps, g) == [tag |-> "Exists", ids |-> ps, goal |-> g]
GoalImplies(wcs, g) == [tag |-> "Implies", wc |-> wcs, goal |-> g]
GoalAnd(g1, g2) == [tag |-> "And", g1 |-> g1, g2 |-> g2]
GoalLeaf(wc) == [tag |-> "Leaf", wc |-> wc]
GoalWellFormed(ty) == [tag |-> "WellFormed", ty |-> ty]

(***************************************************************************)
(* Lowering of types, lifetimes, trait-refs and where-clauses              *)
(***************************************************************************)
\* r? followed by F of the unwrapped value
AndThen(r, F(_)) == IF r.ok THEN F(r.val) ELSE r

\* Ok(F(r?))
MapOk(r, F(_)) == IF r.ok THEN Ok(F(r.val)) ELSE r

RECURSIVE LowerTy(_, _)
RECURSIVE LowerParameter(_, _)
RECURSIVE LowerTraitRef(_, _)
RECURSIVE LowerProjectionTy(_, _)

LowerLifetime(env, l) ==
    MapOk(lookup_lifetime(env, l.name), LAMBDA d : [tag |-> "Var", index |-> d.index])

\* the test of Ty::Id on the kind of the global the name resolved to
IdArityMismatch(k) == Len(k.parameter_kinds) > 0

\* only too few arguments refused
ApplyArityMismatchTooFew(k, args) == Len(k.parameter_kinds) > Len(args)

\* the test of Ty::Apply
ApplyArityMismatch(k, args) == Len(k.parameter_kinds) # Len(args)

\* the environment of the body of a for-all type
ForAllEnv(env, lifetime_names) ==
    introduce(env, [i \in 1..Len(lifetime_names) |-> LifetimeKey(lifetime_names[i].str)])

LowerParameters(env, args) ==
    CollectResults([i \in 1..Len(args) |-> LowerParameter(env, args[i])])

\* Ty::Id once the name is looked up
LowerTyId(env, name, l) ==
    IF l.tag = "Type"
    THEN IF IdArityMismatch(type_kind(env, l.id))
         THEN Err(IncorrectNumberOfTypeParameters(
                      name, Len(type_kind(env, l.id).parameter_kinds), 0))
         ELSE Ok([tag |-> "Apply", name |-> [ItemId |-> l.id], parameters |-> <<>>])
    ELSE Ok([tag |-> "Var", index |-> l.index])

\* Ty::Apply once the name is looked up, up to the lowering of the arguments
ApplyTarget(env, name, args, l) ==
    IF l.tag = "Parameter" THEN Err(CannotApplyTypeParameter(name))
    ELSE IF ApplyArityMismatch(type_kind(env, l.id), args)
    THEN Err(IncorrectNumberOfTypeParameters(
                 name, Len(type_kind(env, l.id).parameter_kinds), Len(args)))
    ELSE Ok(l.id)

LowerTy(env, ty) ==
    CASE ty.tag = "Id" ->
            AndThen(lookup(env, ty.name), LAMBDA l : LowerTyId(env, ty.name, l))
      [] ty.tag = "Apply" ->
            AndThen(AndThen(lookup(env, ty.name),
                            LAMBDA l : ApplyTarget(env, ty.name, ty.args, l)),
                    LAMBDA id :
                        MapOk(LowerParameters(env, ty.args),
                              LAMBDA ps : [tag |-> "Apply", name |-> [ItemId |-> id],
                                           parameters |-> ps]))
      [] ty.tag = "Projection" ->
            MapOk(LowerProjectionTy(env, ty.proj),
                  LAMBDA p : [tag |-> "Projection", proj |-> p])
      [] ty.tag = "ForAll" ->
            MapOk(LowerTy(ForAllEnv(env, ty.lifetime_names), ty.ty),
                  LAMBDA t : [tag |-> "ForAll", num_binders |-> Len(ty.lifetime_names),
                              ty |-> t])

LowerParameter(env, p) ==
    IF p.kind = "Ty"
    THEN MapOk(LowerTy(env, p.ty), LAMBDA t : [kind |-> "Ty", val |-> t])
    ELSE MapOk(LowerLifetime(env, p.lifetime), LAMBDA l : [kind |-> "Lifetime", val |-> l])

\* TraitRef::lower once the name is looked up, up to the lowering of the
\* arguments
TraitTarget(env, name, l) ==
    IF l.tag = "Parameter" THEN Err(NotTrait(name))
    ELSE IF type_kind(env, l.id).sort # "Trait" THEN Err(NotTrait(name))
    ELSE Ok(l.id)

LowerTraitRef(env, tr) ==
    AndThen(AndThen(lookup(env, tr.trait_name),
                    LAMBDA l : TraitTarget(env, tr.trait_name, l)),
            LAMBDA id :
                MapOk(LowerParameters(env, tr.args),
                      LAMBDA ps : [trait_id |-> id, parameters |-> ps]))

\* the associated type of a projection once its trait-ref is lowered
ProjectionOf(env, name, t) ==
    IF <<t.trait_id, name.str>> \in DOMAIN env.associated_ty_ids
    THEN Ok([associated_ty_id |-> env.associated_ty_ids[<<t.trait_id, name.str>>],
             parameters |-> t.parameters])
    ELSE Err(NoAssociatedType(name.str))

LowerProjectionTy(env, proj) ==
    AndThen(LowerTraitRef(env, proj.trait_ref),
            LAMBDA t : ProjectionOf(env, proj.name, t))

LowerWhereClause(env, wc) ==
    IF wc.tag = "Implemented"
    THEN MapOk(LowerTraitRef(env, wc.trait_ref),
               LAMBDA t : [tag |-> "Implemented", trait_ref |-> t])
    ELSE AndThen(LowerProjectionTy(env, wc.projection),
                 LAMBDA p : MapOk(LowerTy(env, wc.ty),
                                  LAMBDA t : [tag |-> "Normalize", projection |-> p,
                                              ty |-> t]))

LowerWhereClauseVec(env, wcs) ==
    CollectResults([i \in 1..Len(wcs) |-> LowerWhereClause(env, wcs[i])])

lower_where_clauses(env, d) == LowerWhereClauseVec(env, d.where_clauses)

LowerAssocTyValue(env, v) ==
    MapOk(LowerTy(env, v.value), LAMBDA t : [name |-> v.name.str, value |-> t])

LowerAssocTyValues(env, vs) ==
    CollectResults([i \in 1..Len(vs) |-> LowerAssocTyValue(env, vs[i])])

lower_impl(env, d) ==
    AndThen(LowerTraitRef(env, d.trait_ref), LAMBDA tr :
    AndThen(LowerAssocTyValues(env, d.assoc_ty_values), LAMBDA vs :
    MapOk(lower_where_clauses(env, d), LAMBDA wcs :
        [trait_ref |-> tr,
         parameter_kinds |-> [i \in 1..Len(d.parameter_kinds) |->
                                 LowerParameterKind(d.parameter_kinds[i])],
         assoc_ty_values |-> vs,
         where_clauses |-> wcs])))

lower_trait(env, d) ==
    MapOk(lower_where_clauses(env, d),
          LAMBDA wcs : [parameter_kinds |-> all_parameters(d), where_clauses |-> wcs])

\* the trait-ref of the where-clause of an associated type: parameter i of
\* the trait becomes variable i, of the parameter's kind
AssocTyTraitRefAllTy(item_id, parameter_kinds) ==
    [trait_id |-> item_id,
     parameters |-> [i \in 1..Len(parameter_kinds) |->
                        [kind |-> "Ty", val |-> [tag |-> "Var", index |-> i - 1]]]]

AssocTyTraitRef(item_id, parameter_kinds) ==
    [trait_id |-> item_id,
     parameters |-> [i \in 1..Len(parameter_kinds) |->
                        [kind |-> parameter_kinds[i].kind,
                         val |-> [tag |-> "Var", index |-> i - 1]]]]

AssociatedTyDatum(item_id, name, td) ==
    [trait_id |-> item_id,
     name |-> name.str,
     parameter_kinds |-> td.parameter_kinds,
     where_clauses |-> <<[tag |-> "Implemented",
                          trait_ref |-> AssocTyTraitRef(item_id, td.parameter_kinds)]>>]

(***************************************************************************)
(* Lowering of goals                                                       *)
(***************************************************************************)
RECURSIVE LowerGoalEnv(_, _)
RECURSIVE lower_quantified(_, _, _, _)

\* the whole parameter list introduced at the first parameter
QuantifiedEnvUnchanged(env, p) == env

\* the environment under the first parameter of a quantifier
QuantifiedEnv(env, p) == introduce(env, <<LowerParameterKind(p)>>)

\* the kind recorded in the Quantified node
QuantifierParameterKind(p) == IF p.kind = "Ty" THEN "Ty" ELSE "Lifetime"

LowerGoalEnv(env, g) ==
    CASE g.tag = "ForAll" -> lower_quantified(g.goal, env, "ForAll", g.ids)
      [] g.tag = "Exists" -> lower_quantified(g.goal, env, "Exists", g.ids)
      [] g.tag = "Implies" ->
            AndThen(LowerWhereClauseVec(env, g.wc), LAMBDA w :
                MapOk(LowerGoalEnv(env, g.goal),
                      LAMBDA s : [tag |-> "Implies", wc |-> w, goal |-> s]))
      [] g.tag = "And" ->
            AndThen(LowerGoalEnv(env, g.g1), LAMBDA a :
                MapOk(LowerGoalEnv(env, g.g2),
                      LAMBDA b : [tag |-> "And", g1 |-> a, g2 |-> b]))
      [] g.tag = "Leaf" ->
            MapOk(LowerWhereClause(env, g.wc), LAMBDA w : [tag |-> "Leaf", goal |-> w])
      [] g.tag = "WellFormed" ->
            MapOk(LowerTy(env, g.ty),
                  LAMBDA t : [tag |-> "Leaf", goal |-> [tag |-> "WellFormed", ty |-> t]])

lower_quantified(g, env, quantifier_kind, parameter_kinds) ==
    IF parameter_kinds = <<>> THEN LowerGoalEnv(env, g)
    ELSE MapOk(lower_quantified(g, QuantifiedEnv(env, Head(parameter_kinds)),
                                quantifier_kind, Tail(parameter_kinds)),
               LAMBDA subgoal :
                   [tag |-> "Quantified", quantifier |-> quantifier_kind,
                    parameter_kind |-> QuantifierParameterKind(Head(parameter_kinds)),
                    goal |-> subgoal])

\* the inversion keyed by the associated type's own id in place of its trait's
InvertAssociatedTyDataById(atd) ==
    [k \in {<<id, atd[id].name>> : id \in DOMAIN atd} |->
        CHOOSE id \in DOMAIN atd : <<id, atd[id].name>> = k]

\* the table of the goal's Env: Program.associated_ty_data inverted
InvertAssociatedTyData(atd) ==
    [k \in {<<atd[id].trait_id, atd[id].name>> : id \in DOMAIN atd} |->
        CHOOSE id \in DOMAIN atd : <<atd[id].trait_id, atd[id].name>> = k]

LowerGoalProgram(program, g) ==
    LowerGoalEnv(Env(program.type_ids, program.type_kinds,
                     InvertAssociatedTyData(program.associated_ty_data), <<>>), g)

(***************************************************************************)
(* Program::lower, one step per iteration of its loops                     *)
(***************************************************************************)
Insert(map, k, v) == (k :> v) @@ map

\* a counter that is read but not advanced
next_item_idStuck(ix) == [id |-> ix, index |-> ix]

next_item_id(ix) == [id |-> ix, index |-> ix + 1]

\* the inner loop of "Create ids for associated types"
RECURSIVE InsertAssociatedTyIds(_, _, _, _)
InsertAssociatedTyIds(acc, ix, item_id, names) ==
    IF names = <<>> THEN [map |-> acc, index |-> ix, ids |-> <<>>]
    ELSE LET r == next_item_id(ix)
             rest == InsertAssociatedTyIds(Insert(acc, <<item_id, Head(names).str>>, r.id),
                                           r.index, item_id, Tail(names))
         IN  [rest EXCEPT !.ids = <<r.id>> \o @]

\* the loop over d.assoc_ty_names after the trait was lowered
RECURSIVE InsertAssociatedTyData(_, _, _, _, _)
InsertAssociatedTyData(acc, aids, item_id, names, td) ==
    IF names = <<>> THEN acc
    ELSE InsertAssociatedTyData(
             Insert(acc, aids[<<item_id, Head(names).str>>],
                    AssociatedTyDatum(item_id, Head(names), td)),
             aids, item_id, Tail(names), td)

ItemEnv(item) == Env(type_ids, type_kinds, associated_ty_ids, parameter_map(item))

AllocItemId ==
    /\ pc = "item_ids" /\ pos <= Len(items)
    /\ LET r == next_item_id(index)
       IN  /\ item_ids' = Append(item_ids, r.id)
           /\ allocated' = Append(allocated, r.id)
           /\ index' = r.index
    /\ pos' = pos + 1
    /\ UNCHANGED <<items, pc, associated_ty_ids, type_ids, type_kinds, trait_data,
                   impl_data, associated_ty_data, result, goal, scope, call>>

AllocAssociatedTyIds ==
    /\ pc = "associated_ty_ids" /\ pos <= Len(items)
    /\ IF items[pos].tag = "TraitDefn"
       THEN LET r == InsertAssociatedTyIds(associated_ty_ids, index, item_ids[pos],
                                           items[pos].assoc_ty_names)
            IN  /\ associated_ty_ids' = r.map
                /\ index' = r.index
                /\ allocated' = allocated \o r.ids
       ELSE UNCHANGED <<associated_ty_ids, index, allocated>>
    /\ pos' = pos + 1
    /\ UNCHANGED <<items, pc, item_ids, type_ids, type_kinds, trait_data, impl_data,
                   associated_ty_data, result, goal, scope, call>>

CollectTypeKind ==
    /\ pc = "type_kinds" /\ pos <= Len(items)
    /\ IF items[pos].tag = "Impl"
       THEN UNCHANGED <<type_ids, type_kinds>>
       ELSE LET k == lower_type_kind(items[pos]).val
            IN  /\ type_ids' = Insert(type_ids, k.name, item_ids[pos])
                /\ type_kinds' = Insert(type_kinds, item_ids[pos], k)
    /\ pos' = pos + 1
    /\ UNCHANGED <<items, pc, index, allocated, item_ids, associated_ty_ids, trait_data,
                   impl_data, associated_ty_data, result, goal, scope, call>>

\* the end of one of the first three loops
NextPass ==
    /\ pc \in {"item_ids", "associated_ty_ids", "type_kinds"} /\ pos > Len(items)
    /\ pc' = CASE pc = "item_ids" -> "associated_ty_ids"
               [] pc = "associated_ty_ids" -> "type_kinds"
               [] pc = "type_kinds" -> "lower"
    /\ pos' = 1
    /\ UNCHANGED <<items, index, allocated, item_ids, associated_ty_ids, type_ids,
                   type_kinds, trait_data, impl_data, associated_ty_data, result, goal,
                   scope, call>>

\* one iteration of the last loop; an Err returns from Program::lower
LowerItem ==
    /\ pc = "lower" /\ pos <= Len(items)
    /\ LET item == items[pos]
           item_id == item_ids[pos]
           env == ItemEnv(item)
       IN  CASE item.tag = "StructDefn" ->
                   /\ pos' = pos + 1
                   /\ UNCHANGED <<pc, trait_data, impl_data, associated_ty_data, result>>
             [] item.tag = "TraitDefn" ->
                   LET r == lower_trait(env, item)
                   IN  IF r.ok
                       THEN /\ trait_data' = Insert(trait_data, item_id, r.val)
                            /\ associated_ty_data' =
                                   InsertAssociatedTyData(associated_ty_data,
                                       associated_ty_ids, item_id, item.assoc_ty_names,
                                       r.val)
                            /\ pos' = pos + 1
                            /\ UNCHANGED <<pc, impl_data, result>>
                       ELSE /\ pc' = "error" /\ result' = r
                            /\ UNCHANGED <<pos, trait_data, impl_data, associated_ty_data>>
             [] item.tag = "Impl" ->
                   LET r == lower_impl(env, item)
                   IN  IF r.ok
                       THEN /\ impl_data' = Insert(impl_data, item_id, r.val)
                            /\ pos' = pos + 1
                            /\ UNCHANGED <<pc, trait_data, associated_ty_data, result>>
                       ELSE /\ pc' = "error" /\ result' = r
                            /\ UNCHANGED <<pos, trait_data, impl_data, associated_ty_data>>
    /\ UNCHANGED <<items, index, allocated, item_ids, associated_ty_ids, type_ids,
                   type_kinds, goal, scope, call>>

Finish ==
    /\ pc = "lower" /\ pos > Len(items)
    /\ pc' = "done"
    /\ result' = Ok([type_ids |-> type_ids, type_kinds |-> type_kinds,
                     trait_data |-> trait_data, impl_data |-> impl_data,
                     associated_ty_data |-> associated_ty_data])
    /\ UNCHANGED <<items, pos, index, allocated, item_ids, associated_ty_ids, type_ids,
                   type_kinds, trait_data, impl_data, associated_ty_data, goal, scope,
                   call>>

(***************************************************************************)
(* Bounds and the inputs drawn within them                                 *)
(***************************************************************************)
MaxItems == 3      \* items of a program
MaxParams == 2     \* declared parameters of an item
MaxAssoc == 2      \* associated-type names of a trait
MaxBinders == 2    \* parameters of one quantifier
MaxIndex == 2      \* the largest index an explored Env may hold

InsertAt(s, i, x) == SubSeq(s, 1, i - 1) \o <<x>> \o SubSeq(s, i, Len(s))

ItemParameterKinds == {TyParam("T"), LifetimeParam("a")}
ParameterLists == SeqsUpTo(ItemParameterKinds, MaxParams)
AssocNameLists == SeqsUpTo({"A", "B"}, MaxAssoc)

BarOfT == TraitRefOf("Bar", <<ParameterTy(TyId("T"))>>)
BarOfASelf == TraitRefOf("Bar", <<ParameterLifetime("a"), ParameterTy(TyId("Self"))>>)
FooOfAT == TyApply("Foo", <<ParameterLifetime("a"), ParameterTy(TyId("T"))>>)

\* where-clauses of items; a name in them resolves or not with the item's
\* parameters and the program's other items
ItemWhereClauses ==
    { Implemented(BarOfT),
      Implemented(BarOfASelf),
      ProjectionEq(ProjectionTyOf(BarOfT, "A"), TyForAll(<<"a">>, FooOfAT)),
      ProjectionEq(ProjectionTyOf(BarOfT, "B"), TyId("Foo")) }

StructItems ==
    {StructDefn("Foo", ps, <<>>) : ps \in ParameterLists}
    \cup {StructDefn("Foo", <<TyParam("T")>>, <<w>>) : w \in ItemWhereClauses}
    \cup {StructDefn("Foo", <<>>, <<Implemented(BarOfT)>>)}

TraitItems ==
    {TraitDefn("Bar", ps, <<>>, <<"A">>) : ps \in ParameterLists}
    \cup {TraitDefn("Bar", <<>>, <<>>, names) : names \in AssocNameLists}
    \cup {TraitDefn("Bar", <<TyParam("T")>>, <<w>>, <<"A">>) : w \in ItemWhereClauses}
    \cup {TraitDefn("Bar", <<LifetimeParam("a")>>, <<Implemented(BarOfASelf)>>, <<"B">>),
          TraitDefn("Foo", <<TyParam("Self")>>, <<>>, <<"A">>)}

ImplItems ==
    {Impl(ps, BarOfT, <<>>, <<>>) : ps \in ParameterLists}
    \cup {Impl(<<TyParam("T")>>, BarOfT, <<w>>, <<>>) : w \in ItemWhereClauses}
    \cup {Impl(<<TyParam("T"), LifetimeParam("a")>>,
               TraitRefOf("Bar", <<ParameterTy(FooOfAT)>>), <<>>,
               <<AssocTyValueOf("A", v)>>) :
             v \in {TyId("T"), TyId("Foo"), TyForAll(<<"a", "a">>, FooOfAT),
                    TyProjection(ProjectionTyOf(BarOfT, "A"))}}
    \cup {Impl(<<TyParam("Foo")>>, TraitRefOf("Foo", <<>>), <<>>, <<>>)}

ItemSet == StructItems \cup TraitItems \cup ImplItems

\* the items around the item under study
ContextItems ==
    { StructDefn("Foo", <<LifetimeParam("a"), TyParam("T")>>, <<>>),
      StructDefn("Foo", <<>>, <<>>),
      TraitDefn("Bar", <<TyParam("T")>>, <<>>, <<"A">>),
      TraitDefn("Bar", <<>>, <<>>, <<"B", "A">>) }

Programs ==
    {<<>>} \cup
    {InsertAt(ctx, i, it) :
        <<ctx, i, it>> \in {x \in SeqsUpTo(ContextItems, MaxItems - 1)
                                   \X (1..MaxItems) \X ItemSet : x[2] <= Len(x[1]) + 1}}

GoalParameterKinds == {TyParam("T"), LifetimeParam("a")}

GoalLeaves ==
    { GoalLeaf(Implemented(BarOfT)),
      GoalLeaf(Implemented(TraitRefOf("Bar", <<ParameterLifetime("a")>>))),
      GoalLeaf(ProjectionEq(ProjectionTyOf(BarOfT, "A"), TyId("T"))),
      GoalWellFormed(TyForAll(<<"a">>, FooOfAT)),
      GoalWellFormed(FooOfAT),
      GoalWellFormed(TyId("Foo")) }

Goals ==
    {GoalForAll(ps, l) : ps \in SeqsUpTo(GoalParameterKinds, MaxBinders), l \in GoalLeaves}
    \cup {GoalExists(<<TyParam("Foo")>>, GoalForAll(<<LifetimeParam("a")>>, l)) :
             l \in GoalLeaves}
    \cup {GoalForAll(<<TyParam("T")>>,
                     GoalImplies(<<Implemented(BarOfT)>>, GoalWellFormed(TyId("Bar")))),
          GoalForAll(<<TyParam("T")>>,
                     GoalAnd(GoalLeaf(Implemented(BarOfT)),
                             GoalExists(<<LifetimeParam("a")>>, GoalWellFormed(FooOfAT))))}

(***************************************************************************)
(* Goal::lower against the finished Program                                *)
(***************************************************************************)
LowerGoal ==
    /\ pc = "done" /\ goal = None
    /\ \E g \in Goals : goal' = [in |-> g, out |-> LowerGoalProgram(result.val, g)]
    /\ UNCHANGED <<items, pc, pos, index, allocated, item_ids, associated_ty_ids,
                   type_ids, type_kinds, trait_data, impl_data, associated_ty_data,
                   result, scope, call>>

(***************************************************************************)
(* Specifications                                                          *)
(***************************************************************************)
InitLocals ==
    /\ pc = "item_ids" /\ pos = 1 /\ index = 0
    /\ allocated = <<>> /\ item_ids = <<>>
    /\ associated_ty_ids = <<>> /\ type_ids = <<>> /\ type_kinds = <<>>
    /\ trait_data = <<>> /\ impl_data = <<>> /\ associated_ty_data = <<>>
    /\ result = None /\ goal = None /\ scope = <<>> /\ call = [op |-> "none"]

Init == items \in Programs /\ InitLocals

Next ==
    \/ AllocItemId
    \/ AllocAssociatedTyIds
    \/ CollectTypeKind
    \/ NextPass
    \/ LowerItem
    \/ Finish
    \/ LowerGoal

Spec == Init /\ [][Next]_vars

(***************************************************************************)
(* Properties of Program::lower                                            *)
(***************************************************************************)
TraitPositions == {p \in 1..Len(items) : items[p].tag = "TraitDefn"}

\* the declared parameters of an item as ir parameter kinds, read off the ast
DeclaredKinds(item) ==
    [i \in 1..Len(item.parameter_kinds) |->
        [kind |-> item.parameter_kinds[i].kind, name |-> item.parameter_kinds[i].name.str]]

\* the number of associated-type declarations of the traits among its
RECURSIVE AssocDeclarations(_)
AssocDeclarations(its) ==
    IF its = <<>> THEN 0
    ELSE (IF Head(its).tag = "TraitDefn" THEN Len(Head(its).assoc_ty_names) ELSE 0)
         + AssocDeclarations(Tail(its))

AssocIdsAllocated == pc \in {"type_kinds", "lower", "done", "error"}

\* C9: the ids handed out by next_item_id are 0, 1, 2, ... in call order
\* (distinct and dense), the item at position p has id p - 1, and once the
\* associated-type ids are allocated their number is (items) + (associated-type
\* declarations of all traits), the declaration at place j of the trait at
\* position p having the id (items) + (declarations of the traits before p)
\* + j - 1; the table keeps, for a name, its last declaration in the trait.
C9_ItemIdsDense ==
    /\ index = Len(allocated)
    /\ \A i \in 1..Len(allocated) : allocated[i] = i - 1
    /\ \A p \in 1..Len(item_ids) : item_ids[p] = p - 1
    /\ AssocIdsAllocated =>
          /\ Len(item_ids) = Len(items)
          /\ Len(allocated) = Len(items) + AssocDeclarations(items)
          /\ \A p \in TraitPositions : \A j \in 1..Len(items[p].assoc_ty_names) :
                LET names == items[p].assoc_ty_names
                IN  (\A j2 \in (j+1)..Len(names) : names[j2] # names[j]) =>
                       /\ <<p - 1, names[j].str>> \in DOMAIN associated_ty_ids
                       /\ associated_ty_ids[<<p - 1, names[j].str>>]
                             = Len(items) + AssocDeclarations(SubSeq(items, 1, p - 1)) + j - 1

\* two traits with two associated types each: six ids
C9_Witness ==
    /\ pc = "done" /\ Len(items) = 2
    /\ items[1].tag = "TraitDefn" /\ items[2].tag = "TraitDefn"
    /\ Len(items[1].assoc_ty_names) = 2 /\ Len(items[2].assoc_ty_names) = 2
    /\ items[2].assoc_ty_names[1] # items[2].assoc_ty_names[2]
    /\ Len(allocated) = 6

\* C7: a lowered trait's TraitData lists the declared parameters in source
\* order and then the one synthetic type parameter Self, the trait's
\* parameter map has Self at index (number of declared parameters), and the
\* trait's TypeKind lists the declared parameters alone.
C7_SelfOrdering ==
    \A p \in TraitPositions :
        LET d == items[p]
            n == Len(d.parameter_kinds)
        IN  /\ parameter_map(d)[TyKey(SELF)] = n
            /\ (p <= Len(item_ids) /\ item_ids[p] \in DOMAIN trait_data) =>
                    LET pk == trait_data[item_ids[p]].parameter_kinds
                    IN  /\ Len(pk) = n + 1
                        /\ SubSeq(pk, 1, n) = DeclaredKinds(d)
                        /\ pk[n + 1] = TyKey(SELF)
            /\ (p <= Len(item_ids) /\ item_ids[p] \in DOMAIN type_kinds) =>
                    type_kinds[item_ids[p]].parameter_kinds = DeclaredKinds(d)

\* a trait with a lifetime and a type parameter has been lowered
C7_Witness ==
    /\ pc = "done"
    /\ \E p \in TraitPositions :
          /\ Len(items[p].parameter_kinds) = 2
          /\ items[p].parameter_kinds[1].kind = "Lifetime"
          /\ items[p].parameter_kinds[2].kind = "Ty"
          /\ item_ids[p] \in DOMAIN trait_data

VarInScope(ctx, i, kind) == i < Len(ctx) /\ ctx[i + 1] = kind

RECURSIVE TyInScope(_, _)
RECURSIVE ParameterInScope(_, _)

ParametersInScope(ctx, ps) == \A i \in 1..Len(ps) : ParameterInScope(ctx, ps[i])

TyInScope(ctx, t) ==
    CASE t.tag = "Var" -> VarInScope(ctx, t.index, "Ty")
      [] t.tag = "Apply" -> ParametersInScope(ctx, t.parameters)
      [] t.tag = "Projection" -> ParametersInScope(ctx, t.proj.parameters)
      [] t.tag = "ForAll" ->
            TyInScope([i \in 1..t.num_binders |-> "Lifetime"] \o ctx, t.ty)

ParameterInScope(ctx, p) ==
    IF p.kind = "Ty" THEN TyInScope(ctx, p.val)
    ELSE VarInScope(ctx, p.val.index, "Lifetime")

WhereClauseInScope(ctx, wc) ==
    IF wc.tag = "Implemented" THEN ParametersInScope(ctx, wc.trait_ref.parameters)
    ELSE ParametersInScope(ctx, wc.projection.parameters) /\ TyInScope(ctx, wc.ty)

RECURSIVE GoalInScope(_, _)
GoalInScope(ctx, g) ==
    CASE g.tag = "Quantified" -> GoalInScope(<<g.parameter_kind>> \o ctx, g.goal)
      [] g.tag = "Implies" ->
            /\ \A i \in 1..Len(g.wc) : WhereClauseInScope(ctx, g.wc[i])
            /\ GoalInScope(ctx, g.goal)
      [] g.tag = "And" -> GoalInScope(ctx, g.g1) /\ GoalInScope(ctx, g.g2)
      [] g.tag = "Leaf" ->
            IF g.goal.tag = "WellFormed" THEN TyInScope(ctx, g.goal.ty)
            ELSE WhereClauseInScope(ctx, g.goal)

\* the kinds of an item's parameters, Self included for a trait
ItemContext(item) ==
    [i \in 1..Len(item.parameter_kinds) |-> item.parameter_kinds[i].kind]
    \o (IF item.tag = "TraitDefn" THEN <<"Ty">> ELSE <<>>)

\* C5: every variable of a lowered trait's where-clauses, of a lowered impl's
\* trait-ref, where-clauses and associated-type values, and of a lowered goal
\* has an index below (parameters of the item, Self included) + (binders of the
\* quantifiers and for-all types around it), and that index is bound to a
\* parameter of the variable's kind.
C5_VarsInScope ==
    /\ \A p \in 1..Len(item_ids) :
          /\ (items[p].tag = "TraitDefn" /\ item_ids[p] \in DOMAIN trait_data) =>
                \A i \in 1..Len(trait_data[item_ids[p]].where_clauses) :
                    WhereClauseInScope(ItemContext(items[p]),
                                       trait_data[item_ids[p]].where_clauses[i])
          /\ (items[p].tag = "Impl" /\ item_ids[p] \in DOMAIN impl_data) =>
                LET d == impl_data[item_ids[p]]
                    ctx == ItemContext(items[p])
                IN  /\ ParametersInScope(ctx, d.trait_ref.parameters)
                    /\ \A i \in 1..Len(d.where_clauses) :
                          WhereClauseInScope(ctx, d.where_clauses[i])
                    /\ \A i \in 1..Len(d.assoc_ty_values) :
                          TyInScope(ctx, d.assoc_ty_values[i].value)
    /\ (goal # None /\ goal.out.ok) => GoalInScope(<<>>, goal.out.val)

\* an impl with a for-all type as associated-type value is lowered, and so
\* is a goal with a for-all type under a quantifier
C5_Witness ==
    /\ \E id \in DOMAIN impl_data :
          /\ Len(impl_data[id].assoc_ty_values) = 1
          /\ impl_data[id].assoc_ty_values[1].value.tag = "ForAll"
    /\ goal # None /\ goal.out.ok
    /\ goal.in = GoalForAll(<<TyParam("T")>>, GoalWellFormed(TyForAll(<<"a">>, FooOfAT)))

(***************************************************************************)
(* Names of the ast that resolve to nothing                                *)
(***************************************************************************)
\* the names of the program's structs and traits
GlobalNames ==
    {items[p].name.str : p \in {q \in 1..Len(items) : items[q].tag # "Impl"}}

NameUnresolved(keys, name) == TyKey(name.str) \notin keys /\ name.str \notin GlobalNames

RECURSIVE TyUnresolved(_, _)
RECURSIVE ParameterUnresolved(_, _)

TraitRefUnresolved(keys, tr) ==
    \/ NameUnresolved(keys, tr.trait_name)
    \/ \E i \in 1..Len(tr.args) : ParameterUnresolved(keys, tr.args[i])

TyUnresolved(keys, ty) ==
    CASE ty.tag = "Id" -> NameUnresolved(keys, ty.name)
      [] ty.tag = "Apply" ->
            \/ NameUnresolved(keys, ty.name)
            \/ \E i \in 1..Len(ty.args) : ParameterUnresolved(keys, ty.args[i])
      [] ty.tag = "Projection" -> TraitRefUnresolved(keys, ty.proj.trait_ref)
      [] ty.tag = "ForAll" ->
            TyUnresolved(keys \cup {LifetimeKey(ty.lifetime_names[i].str) :
                                       i \in 1..Len(ty.lifetime_names)}, ty.ty)

ParameterUnresolved(keys, p) ==
    IF p.kind = "Ty" THEN TyUnresolved(keys, p.ty)
    ELSE LifetimeKey(p.lifetime.name.str) \notin keys

WhereClauseUnresolved(keys, wc) ==
    IF wc.tag = "Implemented" THEN TraitRefUnresolved(keys, wc.trait_ref)
    ELSE TraitRefUnresolved(keys, wc.projection.trait_ref) \/ TyUnresolved(keys, wc.ty)

RECURSIVE GoalUnresolved(_, _)
GoalUnresolved(keys, g) ==
    CASE g.tag \in {"ForAll", "Exists"} ->
            GoalUnresolved(keys \cup {[kind |-> g.ids[i].kind, name |-> g.ids[i].name.str] :
                                         i \in 1..Len(g.ids)}, g.goal)
      [] g.tag = "Implies" ->
            \/ \E i \in 1..Len(g.wc) : WhereClauseUnresolved(keys, g.wc[i])
            \/ GoalUnresolved(keys, g.goal)
      [] g.tag = "And" -> GoalUnresolved(keys, g.g1) \/ GoalUnresolved(keys, g.g2)
      [] g.tag = "Leaf" -> WhereClauseUnresolved(keys, g.wc)
      [] g.tag = "WellFormed" -> TyUnresolved(keys, g.ty)

\* the parameters in scope in an item's body
ItemKeys(item) ==
    {[kind |-> item.parameter_kinds[i].kind, name |-> item.parameter_kinds[i].name.str] :
        i \in 1..Len(item.parameter_kinds)}
    \cup (IF item.tag = "TraitDefn" THEN {TyKey(SELF)} ELSE {})

ItemUnresolved(item) ==
    \/ \E i \in 1..Len(item.where_clauses) :
          WhereClauseUnresolved(ItemKeys(item), item.where_clauses[i])
    \/ /\ item.tag = "Impl"
       /\ \/ TraitRefUnresolved(ItemKeys(item), item.trait_ref)
          \/ \E i \in 1..Len(item.assoc_ty_values) :
                TyUnresolved(ItemKeys(item), item.assoc_ty_values[i].value)

\* Program::lower has returned Ok or Err, and an Ok Program is complete
ResultComplete ==
    /\ pc = "error" => (~result.ok /\ DOMAIN result = {"ok", "err"})
    /\ pc = "done" =>
          /\ result.ok
          /\ \A p \in 1..Len(items) :
                /\ items[p].tag = "TraitDefn" => item_ids[p] \in DOMAIN result.val.trait_data
                /\ items[p].tag = "Impl" => item_ids[p] \in DOMAIN result.val.impl_data
                /\ items[p].tag # "Impl" => item_ids[p] \in DOMAIN result.val.type_kinds
    /\ pc \notin {"done", "error"} => result = None

\* C6: lowering returns a complete Program (Goal) or one error, and a name
\* that resolves to neither a parameter in scope nor a global struct or trait,
\* anywhere in a struct, a trait, an impl or the goal, makes the result an
\* error.
C6_FailFast ==
    /\ ResultComplete
    /\ pc = "done" => \A p \in 1..Len(items) : ~ItemUnresolved(items[p])
    /\ (goal # None /\ goal.out.ok) => ~GoalUnresolved({}, goal.in)

(***************************************************************************)
(* The associated-type table of items against the one goals rebuild        *)
(***************************************************************************)
\* the trait-ref a projection on the trait at position p lowers to
TraitRefAt(p) == [trait_id |-> item_ids[p], parameters |-> <<>>]

\* the Env Goal::lower would build had it been handed the items' own table
GoalEnvOfItems == Env(type_ids, type_kinds, associated_ty_ids, <<>>)

\* C11: for every Program returned, no two AssociatedTyData share (trait_id,
\* name), the table (trait_id, name) -> associated-type id rebuilt by inverting
\* Program.associated_ty_data equals the table used while lowering the items,
\* every associated-type name declared in a trait is a key of the rebuilt
\* table, a projection of any name on any trait resolves in the goal's Env as
\* it does in the item's Env, and a goal lowered against the Program gives what
\* it would give with the items' own table.
C11_AssocTableRoundTrip ==
    (pc = "done") =>
        LET atd == result.val.associated_ty_data
            rebuilt == InvertAssociatedTyData(atd)
            goal_env == Env(result.val.type_ids, result.val.type_kinds, rebuilt, <<>>)
        IN  /\ \A id1, id2 \in DOMAIN atd :
                  (atd[id1].trait_id = atd[id2].trait_id /\ atd[id1].name = atd[id2].name)
                      => id1 = id2
            /\ DOMAIN rebuilt = DOMAIN associated_ty_ids
            /\ \A k \in DOMAIN rebuilt : rebuilt[k] = associated_ty_ids[k]
            /\ \A p \in TraitPositions : \A j \in 1..Len(items[p].assoc_ty_names) :
                  <<item_ids[p], items[p].assoc_ty_names[j].str>> \in DOMAIN rebuilt
            /\ \A p \in TraitPositions : \A n \in {"A", "B", "C"} :
                  ProjectionOf(goal_env, Ident(n), TraitRefAt(p))
                      = ProjectionOf(ItemEnv(items[p]), Ident(n), TraitRefAt(p))
            /\ goal # None => goal.out = LowerGoalEnv(GoalEnvOfItems, goal.in)

\* a goal projecting Bar<T>::A was lowered against a Program with at least two
\* associated types
C11_Witness ==
    /\ pc = "done" /\ goal # None
    /\ Cardinality(DOMAIN associated_ty_ids) >= 2
    /\ goal.in = GoalForAll(<<TyParam("T")>>,
                            GoalLeaf(ProjectionEq(ProjectionTyOf(BarOfT, "A"), TyId("T"))))
    /\ goal.out.ok

(***************************************************************************)
(* The Env methods and the lowering helpers, called on the environments    *)
(* lowering builds: an item's parameter map or the goal's empty one, under *)
(* the binders of quantifiers and for-all types                            *)
(***************************************************************************)
MaxArgs == 3       \* arguments of an applied type or a trait-ref

\* a struct Foo and a trait Bar { type A; } of the same parameters
EnvPrograms ==
    {<<StructDefn("Foo", ps, <<>>), TraitDefn("Bar", ps, <<>>, <<"A">>)>> :
        ps \in ParameterLists}

\* the binders one call of introduce is given: the lifetimes of a for-all
\* type, or the one parameter of a quantifier
BinderLists ==
    SeqsUpTo({LifetimeKey("a"), LifetimeKey("Foo")}, MaxBinders)
    \cup {<<TyKey("T")>>, <<TyKey("Foo")>>}

ArgumentLists == SeqsUpTo({ParameterTy(TyId("T")), ParameterLifetime("a")}, MaxArgs)

CallTys ==
    {TyId(n) : n \in {"T", "Foo", "Bar"}}
    \cup {TyApply(n, args) : n \in {"Foo", "Bar"}, args \in ArgumentLists}
    \cup {TyApply("T", <<>>), TyApply("T", <<ParameterTy(TyId("T"))>>),
          TyApply("Foo", <<ParameterTy(TyId("Foo"))>>),
          TyApply("Foo", <<ParameterTy(TyId("Foo")), ParameterTy(TyId("Baz"))>>),
          TyForAll(<<"a">>, TyApply("Foo", <<ParameterLifetime("a")>>))}

CallTraitRefs ==
    {TraitRefOf("Bar", args) : args \in ArgumentLists}
    \cup {TraitRefOf(n, <<ParameterTy(TyId("T"))>>) : n \in {"T", "Foo", "Baz"}}

QuantifierLists == SeqsUpTo({TyParam("T"), LifetimeParam("a")}, MaxBinders)

CallGoalBodies ==
    { GoalWellFormed(TyId("T")),
      GoalWellFormed(TyId("Foo")),
      GoalLeaf(Implemented(TraitRefOf("Bar", <<ParameterLifetime("a"),
                                                ParameterTy(TyId("T"))>>))) }

CallGoals ==
    {GoalForAll(ps, g) : ps \in QuantifierLists, g \in CallGoalBodies}
    \cup {GoalExists(ps, g) : ps \in QuantifierLists, g \in CallGoalBodies}

CurrentEnv == Env(type_ids, type_kinds, associated_ty_ids, scope)

\* the helpers are pure: one call on each environment reaches every result
NoCall == [op |-> "none"]

Fresh == pc = "done" /\ call.op \in {"none", "introduce"}

EnvUnchanged ==
    UNCHANGED <<items, pc, pos, index, allocated, item_ids, associated_ty_ids,
                type_ids, type_kinds, trait_data, impl_data, associated_ty_data,
                result, goal>>

\* the Env of the item at position p, as the last loop of Program::lower
\* builds it
EnterItem ==
    /\ pc = "done" /\ call.op = "none" /\ scope = <<>>
    /\ \E p \in 1..Len(items) :
          /\ parameter_map(items[p]) # <<>>
          /\ scope' = parameter_map(items[p])
    /\ UNCHANGED call
    /\ EnvUnchanged

Introduce ==
    /\ Fresh
    /\ \E binders \in BinderLists :
          /\ \A k \in DOMAIN scope : scope[k] + Len(binders) <= MaxIndex
          /\ call' = [op |-> "introduce", env |-> CurrentEnv, binders |-> binders,
                      res |-> introduce(CurrentEnv, binders)]
          /\ scope' = introduce(CurrentEnv, binders).parameter_map
    /\ EnvUnchanged

CallLookup ==
    /\ Fresh
    /\ \E n \in {"T", "Foo", "a", "Baz"} :
          call' = [op |-> "lookup", env |-> CurrentEnv, name |-> Ident(n),
                   res |-> lookup(CurrentEnv, Ident(n))]
    /\ UNCHANGED scope
    /\ EnvUnchanged

CallLookupLifetime ==
    /\ Fresh
    /\ \E n \in {"T", "Foo", "a"} :
          call' = [op |-> "lookup_lifetime", env |-> CurrentEnv, name |-> Ident(n),
                   res |-> lookup_lifetime(CurrentEnv, Ident(n))]
    /\ UNCHANGED scope
    /\ EnvUnchanged

CallLowerTy ==
    /\ Fresh
    /\ \E ty \in CallTys :
          call' = [op |-> "lower_ty", env |-> CurrentEnv, in |-> ty,
                   res |-> LowerTy(CurrentEnv, ty)]
    /\ UNCHANGED scope
    /\ EnvUnchanged

CallLowerTraitRef ==
    /\ Fresh
    /\ \E tr \in CallTraitRefs :
          call' = [op |-> "lower_trait_ref", env |-> CurrentEnv, in |-> tr,
                   res |-> LowerTraitRef(CurrentEnv, tr)]
    /\ UNCHANGED scope
    /\ EnvUnchanged

CallLowerGoal ==
    /\ Fresh
    /\ \E g \in CallGoals :
          call' = [op |-> "lower_goal", env |-> CurrentEnv, in |-> g,
                   res |-> LowerGoalEnv(CurrentEnv, g)]
    /\ UNCHANGED scope
    /\ EnvUnchanged

InitEnv == items \in EnvPrograms /\ InitLocals

NextEnv ==
    \/ AllocItemId
    \/ AllocAssociatedTyIds
    \/ CollectTypeKind
    \/ NextPass
    \/ LowerItem
    \/ Finish
    \/ EnterItem
    \/ Introduce
    \/ CallLookup
    \/ CallLookupLifetime
    \/ CallLowerTy
    \/ CallLowerTraitRef
    \/ CallLowerGoal

SpecEnv == InitEnv /\ [][NextEnv]_vars

(***************************************************************************)
(* Properties of the Env methods and the lowering helpers                  *)
(***************************************************************************)
Found(i) == Ok([tag |-> "Parameter", index |-> i])

\* the lookup a parameter of the given kind and name is found by
LookupKey(env, k) ==
    IF k.kind = "Ty" THEN lookup(env, Ident(k.name)) ELSE lookup_lifetime(env, Ident(k.name))

SameGlobals(e1, e2) ==
    /\ e1.type_ids = e2.type_ids
    /\ e1.type_kinds = e2.type_kinds
    /\ e1.associated_ty_ids = e2.associated_ty_ids

\* C3 as claimed: after E.introduce([k1..kn]) every parameter p of E at index
\* i is found at i + n and every kj at j - 1, the global maps being those of E.
C3_ShiftEveryParameter ==
    (call.op = "introduce") =>
        LET E == call.env.parameter_map
            n == Len(call.binders)
        IN  /\ \A p \in DOMAIN E : LookupKey(call.res, p) = Found(E[p] + n)
            /\ \A j \in 1..n : LookupKey(call.res, call.binders[j]) = Found(j - 1)
            /\ SameGlobals(call.res, call.env)

\* C3 as amended: every parameter p of E at index i whose kind and name are
\* not those of a binder is found at i + n, and every kj whose kind and name
\* do not recur later among the binders at j - 1; a binder replaces a
\* parameter of E of its kind and name, and of two binders of one kind and
\* name the later is found.  Nothing else is bound, and the global maps are
\* those of E.
C3_ShiftUnshadowed ==
    (call.op = "introduce") =>
        LET E == call.env.parameter_map
            bs == call.binders
            n == Len(bs)
        IN  /\ \A p \in DOMAIN E \ Range(bs) : LookupKey(call.res, p) = Found(E[p] + n)
            /\ \A j \in 1..n :
                  LookupKey(call.res, bs[j]) =
                      IF \E j2 \in (j+1)..n : bs[j2] = bs[j]
                      THEN Found(LastIndex(bs, bs[j]) - 1)
                      ELSE Found(j - 1)
            /\ DOMAIN call.res.parameter_map = DOMAIN E \cup Range(bs)
            /\ SameGlobals(call.res, call.env)

\* two distinct binders introduced over a parameter they do not shadow
C3_Witness ==
    /\ call.op = "introduce"
    /\ Len(call.binders) = 2 /\ call.binders[1] # call.binders[2]
    /\ \E p \in DOMAIN call.env.parameter_map :
          /\ p \notin Range(call.binders)
          /\ call.res.parameter_map[p] = call.env.parameter_map[p] + 2

\* C10: with a type parameter X in scope lookup(X) is that parameter's index,
\* whether or not a struct or trait is named X, and the bare type X lowers
\* to Ty::Var of it; without one, lookup(X) is the global X even when a
\* lifetime parameter is named X; lookup_lifetime(X) is the lifetime
\* parameter X or an error, whatever type parameters and globals are named X.
C10_Shadowing ==
    /\ (call.op = "lookup") =>
          LET X == call.name.str
              pm == call.env.parameter_map
          IN  IF TyKey(X) \in DOMAIN pm THEN call.res = Found(pm[TyKey(X)])
              ELSE IF X \in DOMAIN type_ids
                   THEN call.res = Ok([tag |-> "Type", id |-> type_ids[X]])
                   ELSE ~call.res.ok
    /\ (call.op = "lower_ty" /\ call.in.tag = "Id"
        /\ TyKey(call.in.name.str) \in DOMAIN call.env.parameter_map) =>
          call.res = Ok([tag |-> "Var",
                         index |-> call.env.parameter_map[TyKey(call.in.name.str)]])
    /\ (call.op = "lookup_lifetime") =>
          LET X == call.name.str
              pm == call.env.parameter_map
          IN  IF LifetimeKey(X) \in DOMAIN pm THEN call.res = Found(pm[LifetimeKey(X)])
              ELSE ~call.res.ok

\* the bare type Foo is lowered where Foo is a struct, a type parameter and
\* a lifetime parameter
C10_Witness ==
    /\ call.op = "lower_ty" /\ call.in = TyId("Foo")
    /\ "Foo" \in DOMAIN type_ids
    /\ TyKey("Foo") \in DOMAIN call.env.parameter_map
    /\ LifetimeKey("Foo") \in DOMAIN call.env.parameter_map
    /\ call.res.ok /\ call.res.val.tag = "Var"

\* the struct or trait of the program named n, and the number of parameters
\* it declares
Declares(n) == \E p \in 1..Len(items) : items[p].tag # "Impl" /\ items[p].name.str = n
Declaration(n) ==
    items[CHOOSE p \in 1..Len(items) : items[p].tag # "Impl" /\ items[p].name.str = n]
DeclaredCount(n) == Len(Declaration(n).parameter_kinds)

\* the name resolves to the global: no type parameter of that name in scope
ResolvesToGlobal(env, n) == Declares(n) /\ TyKey(n) \notin DOMAIN env.parameter_map

\* C2: for a name N resolving to a global struct or trait of d declared
\* parameters, the bare type N lowers iff d = 0, and the applied type
\* N<a1..ak> gets past the arity check iff k = d: then the result is that of
\* lowering the arguments; otherwise it is IncorrectNumberOfTypeParameters
\* with expected d and actual k (0 for the bare type), whatever the arguments
\* are.
C2_TypeArity ==
    (call.op = "lower_ty" /\ call.in.tag \in {"Id", "Apply"}
     /\ ResolvesToGlobal(call.env, call.in.name.str)) =>
        LET N == call.in.name
            d == DeclaredCount(N.str)
            id == type_ids[N.str]
        IN  IF call.in.tag = "Id"
            THEN /\ call.res.ok <=> (d = 0)
                 /\ call.res = IF d = 0
                               THEN Ok([tag |-> "Apply", name |-> [ItemId |-> id],
                                        parameters |-> <<>>])
                               ELSE Err(IncorrectNumberOfTypeParameters(N, d, 0))
            ELSE LET k == Len(call.in.args)
                     args == LowerParameters(call.env, call.in.args)
                 IN  call.res =
                        IF k # d THEN Err(IncorrectNumberOfTypeParameters(N, d, k))
                        ELSE IF args.ok
                             THEN Ok([tag |-> "Apply", name |-> [ItemId |-> id],
                                      parameters |-> args.val])
                             ELSE args

\* Foo, of two declared parameters, applied to three arguments of which one
\* does not resolve
C2_Witness ==
    /\ call.op = "lower_ty" /\ call.in.tag = "Apply" /\ call.in.name.str = "Foo"
    /\ ResolvesToGlobal(call.env, "Foo") /\ DeclaredCount("Foo") = 2
    /\ Len(call.in.args) = 3
    /\ ~LowerParameters(call.env, call.in.args).ok
    /\ ~call.res.ok /\ call.res.err.kind = "IncorrectNumberOfTypeParameters"

ArgumentKinds(args) == [i \in 1..Len(args) |-> args[i].kind]

\* the parameter lists of the trait named n: the declared parameters (its
\* TypeKind), and these followed by Self (its TraitData)
TraitParameterKinds(n) ==
    LET declared == [i \in 1..DeclaredCount(n) |-> Declaration(n).parameter_kinds[i].kind]
    IN  {declared, declared \o <<"Ty">>}

\* C1: a trait-ref lowers to an ir::TraitRef only if its arguments have the
\* length and the positional kinds of the parameter list of the trait it
\* names (with or without the trait's Self).
C1_TraitRefArity ==
    (call.op = "lower_trait_ref" /\ call.res.ok) =>
        ArgumentKinds(call.in.args) \in TraitParameterKinds(call.in.trait_name.str)

\* the parameter kinds of a quantifier, as keys of the parameter map
KeyOf(p) == [kind |-> p.kind, name |-> p.name.str]

\* the environment after introducing the parameters one at a time
RECURSIVE IntroduceEach(_, _)
IntroduceEach(env, ps) ==
    IF ps = <<>> THEN env
    ELSE IntroduceEach(introduce(env, <<KeyOf(Head(ps))>>), Tail(ps))

\* one Quantified node per parameter, the first outermost, around body
RECURSIVE QuantifiedChain(_, _, _)
QuantifiedChain(q, ps, body) ==
    IF ps = <<>> THEN body
    ELSE [tag |-> "Quantified", quantifier |-> q, parameter_kind |-> Head(ps).kind,
          goal |-> QuantifiedChain(q, Tail(ps), body)]

\* C8: a ForAll or Exists goal over [p1..pn] with body G lowers to n nested
\* one-parameter Quantified nodes of its quantifier, of the kinds of p1..pn
\* from the outside in, around G lowered in the environment that introduces
\* p1, then p2, .., then pn (an error of G being the result); there pj, when
\* the names are distinct, is at index n - j and a parameter of the outer
\* environment that none of them shadows is shifted by n.  With n = 0 the
\* result is G lowered in the environment as it is.
C8_QuantifierFlattening ==
    (call.op = "lower_goal") =>
        LET ps == call.in.ids
            n == Len(ps)
            inner == IntroduceEach(call.env, ps)
            body == LowerGoalEnv(inner, call.in.goal)
        IN  /\ call.res = IF body.ok THEN Ok(QuantifiedChain(call.in.tag, ps, body.val))
                          ELSE body
            /\ (\A i, j \in 1..n : i # j => KeyOf(ps[i]) # KeyOf(ps[j])) =>
                  \A j \in 1..n : LookupKey(inner, KeyOf(ps[j])) = Found(n - j)
            /\ \A p \in DOMAIN call.env.parameter_map :
                  p \notin {KeyOf(ps[j]) : j \in 1..n} =>
                      LookupKey(inner, p) = Found(call.env.parameter_map[p] + n)
            /\ n = 0 => call.res = LowerGoalEnv(call.env, call.in.goal)

\* forall<T, 'a> { Bar<'a, T> } lowered under an outer parameter
C8_Witness ==
    /\ call.op = "lower_goal" /\ call.in.tag = "ForAll"
    /\ call.in.ids = <<TyParam("T"), LifetimeParam("a")>>
    /\ call.in.goal.tag = "Leaf"
    /\ call.env.parameter_map # <<>>
    /\ call.res.ok
    /\ call.res.val.parameter_kind = "Ty" /\ call.res.val.goal.parameter_kind = "Lifetime"

====
